---------------------------- MODULE Spec2Model ----------------------------
(***************************************************************************)
(* zebra-viz: the referee query service (server/index.ts and the earlier   *)
(* backend/src/server.ts) and its derived-statistics functions.            *)
(*                                                                         *)
(* Representation of JavaScript values:                                    *)
(*   - a string whose characters the code inspects (a game's date, a team  *)
(*     name) is a sequence of one-character strings; a string the code     *)
(*     only compares with === (ids, names, locations) is a TLA+ string;    *)
(*   - NaN, undefined and null are the values NaN, Undefined and Null;     *)
(*   - a double is a fixed-point integer with FP units per 1 where its     *)
(*     fraction matters (radians, miles), and a plain integer elsewhere;   *)
(*     rounding is to nearest and sign-symmetric, as IEEE-754 rounding is; *)
(*   - Date.prototype.getTime() is counted in days (units of 86 400 000 ms:*)
(*     a date-only ISO string parses to midnight UTC, a whole multiple).   *)
(***************************************************************************)
EXTENDS Integers, Sequences, FiniteSets, TLC

VARIABLES
    referees,     \* server/index.ts:20 the in-memory dataset
    loaded,       \* the dataset as it was parsed at startup (history)
    data,         \* backend/src/server.ts:3 the dataset of the earlier build
    response,     \* the last request served with its response, or NoResponse
    remembered,   \* one earlier request with its response (history), or NoResponse
    games,        \* function-level runs: the games list passed to a statistics function
    result,       \* function-level runs: the last call and what it returned
    selectedReferee,        \* App: useState<Referee | null>(null)
    selectedRefereeId,      \* App: useState<string | null>(null)
    detailLoading,          \* App: useState(false)
    isSidebarOpen,          \* App: useState(false)
    requests,               \* App: the promises of the detail requests, in the order started
    props,                  \* MapVisualization: its props, { referee }
    memo,                   \* MapVisualization: what its useMemo calls hold
    tooltip,                \* MapVisualization: useState<TooltipState | null>(null)
    isTimelinePlaying,      \* MapVisualization: useState(false)
    timelineProgress,       \* MapVisualization: useState(0), in units of 1/segmentDurationMs
    tooltipHideTimeoutRef,  \* MapVisualization: useRef<number | null>(null)
    frameId,                \* MapVisualization: let frameId of the timeline effect in force
    animationFrames,        \* window: the animation frames requested and not yet run or cancelled
    timeouts,               \* window: the timeouts set and not yet run or cleared
    lastEvent               \* the handler, callback or effect that ran last (history)

appVars == <<selectedReferee, selectedRefereeId, detailLoading, isSidebarOpen, requests>>

mapVars ==
    <<props, memo, tooltip, isTimelinePlaying, timelineProgress, tooltipHideTimeoutRef,
      frameId, animationFrames, timeouts, lastEvent>>

serviceVars == <<referees, loaded, data, response, remembered>>

functionVars == <<games, result>>

vars == <<serviceVars, games, result, appVars, mapVars>>

\* NaN, undefined and null stand where a number may stand, so they are
\* integers no computation of the model yields.
NaN == 0 - 1000000001
Undefined == 0 - 1000000002
Null == 0 - 1000000003

---------------------------------------------------------------------------
(* Sequences *)

Range(s) == {s[i] : i \in DOMAIN s}

SeqsUpTo(S, n) == UNION {[1..k -> S] : k \in 0..n}

Abs(x) == IF x < 0 THEN -x ELSE x

Min(a, b) == IF a <= b THEN a ELSE b

\* The permutations of 1..n, as sequences.
Perms(n) == {p \in [1..n -> 1..n] : \A i, j \in 1..n : p[i] = p[j] => i = j}

Permuted(s, p) == [i \in 1..Len(s) |-> s[p[i]]]

---------------------------------------------------------------------------
(* Strings as sequences of characters *)

\* The characters the model's strings are made of, in ascending order of
\* UTF-16 code unit ('-' 45, digits 48..57, upper case, then lower case).
Alphabet == <<"-", "0", "1", "2", "3", "4", "5", "6", "7", "8", "9",
              "D", "K", "U", "a", "d", "e", "k", "n", "o", "t", "u">>

CharCode(c) == CHOOSE i \in DOMAIN Alphabet : Alphabet[i] = c

Digits == {"0", "1", "2", "3", "4", "5", "6", "7", "8", "9"}

DigitValue(c) == CharCode(c) - CharCode("0")

\* The code-unit comparison of two strings: -1, 0 or 1.
RECURSIVE StringCompare(_, _)
StringCompare(x, y) ==
    IF x = << >> /\ y = << >> THEN 0
    ELSE IF x = << >> THEN -1
    ELSE IF y = << >> THEN 1
    ELSE IF CharCode(Head(x)) < CharCode(Head(y)) THEN -1
    ELSE IF CharCode(Head(x)) > CharCode(Head(y)) THEN 1
    ELSE StringCompare(Tail(x), Tail(y))

---------------------------------------------------------------------------
(* Array.prototype.sort as Node's V8 runs it on an array of fewer than 64  *)
(* elements: one run is counted (and reversed when strictly descending),   *)
(* the rest is inserted by binary insertion.  cmp[<<x, y>>] is the number  *)
(* the comparator returns for (x, y); a NaN counts as 0.                   *)

CmpNum(v) == IF v = NaN THEN 0 ELSE v

RECURSIVE RunEnd(_, _, _, _)
\* The index of the last element of the run that starts at a[1], given that
\* a[1..idx-1] is in the run.
RunEnd(a, cmp, isDescending, idx) ==
    IF idx > Len(a) THEN Len(a)
    ELSE LET order == CmpNum(cmp[<<a[idx], a[idx - 1]>>])
         IN  IF (isDescending /\ order >= 0) \/ (~isDescending /\ order < 0)
             THEN idx - 1
             ELSE RunEnd(a, cmp, isDescending, idx + 1)

Reversed(s) == [i \in 1..Len(s) |-> s[Len(s) + 1 - i]]

RECURSIVE BinarySearch(_, _, _, _, _)
\* Where the pivot goes in the sorted prefix: the left bound after the loop.
BinarySearch(a, cmp, pivot, left, right) ==
    IF left >= right THEN left
    ELSE LET mid == left + ((right - left) \div 2)
             order == CmpNum(cmp[<<pivot, a[mid]>>])
         IN  IF order < 0 THEN BinarySearch(a, cmp, pivot, left, mid)
             ELSE BinarySearch(a, cmp, pivot, mid + 1, right)

RECURSIVE BinaryInsertionSort(_, _, _)
\* a[1..start-1] is sorted; insert a[start], a[start+1], ...
BinaryInsertionSort(a, cmp, start) ==
    IF start > Len(a) THEN a
    ELSE LET pivot == a[start]
             left == BinarySearch(a, cmp, pivot, 1, start)
             moved == [i \in 1..Len(a) |->
                          IF i < left \/ i > start THEN a[i]
                          ELSE IF i = left THEN pivot
                          ELSE a[i - 1]]
         IN  BinaryInsertionSort(moved, cmp, start + 1)

ArraySort(a, cmp) ==
    IF Len(a) < 2 THEN a
    ELSE LET isDescending == CmpNum(cmp[<<a[2], a[1]>>]) < 0
             runLength == RunEnd(a, cmp, isDescending, 3)
             made == IF isDescending
                     THEN Reversed(SubSeq(a, 1, runLength)) \o SubSeq(a, runLength + 1, Len(a))
                     ELSE a
         IN  BinaryInsertionSort(made, cmp, runLength + 1)

---------------------------------------------------------------------------
(* new Date(s).getTime() for the strings of the dataset *)

IsLeap(y) == (y % 4 = 0 /\ y % 100 # 0) \/ y % 400 = 0

DaysInYear(y) == IF IsLeap(y) THEN 366 ELSE 365

DaysInMonth(y, m) ==
    IF m = 2 THEN (IF IsLeap(y) THEN 29 ELSE 28)
    ELSE IF m \in {4, 6, 9, 11} THEN 30 ELSE 31

\* Days from 1970-01-01 to January 1st of year y (negative before 1970):
\* 365 a year and one more for each leap year in between.
DaysBeforeYear(y) ==
    365 * (y - 1970)
    + (((y - 1) \div 4) - ((y - 1) \div 100) + ((y - 1) \div 400))
    - ((1969 \div 4) - (1969 \div 100) + (1969 \div 400))

RECURSIVE DaysBeforeMonth(_, _)
DaysBeforeMonth(y, m) == IF m <= 1 THEN 0 ELSE DaysBeforeMonth(y, m - 1) + DaysInMonth(y, m - 1)

\* YYYY-MM-DD, the date-only form: ten characters, digits around two dashes.
IsDateOnlyForm(s) ==
    /\ Len(s) = 10
    /\ s[5] = "-" /\ s[8] = "-"
    /\ \A i \in {1, 2, 3, 4, 6, 7, 9, 10} : s[i] \in Digits

YearOf(s) == 1000 * DigitValue(s[1]) + 100 * DigitValue(s[2]) + 10 * DigitValue(s[3]) + DigitValue(s[4])

MonthOf(s) == 10 * DigitValue(s[6]) + DigitValue(s[7])

DayOf(s) == 10 * DigitValue(s[9]) + DigitValue(s[10])

\* The time value of new Date(s), in days since the epoch, or NaN for a
\* string that is no date: V8 takes a date-only string with a month in 1..12
\* and a day in 1..31 (a day past the month's end rolls over) as UTC midnight.
DateGetTime(s) ==
    IF /\ IsDateOnlyForm(s)
       /\ MonthOf(s) \in 1..12
       /\ DayOf(s) \in 1..31
    THEN DaysBeforeYear(YearOf(s)) + DaysBeforeMonth(YearOf(s), MonthOf(s)) + DayOf(s) - 1
    ELSE NaN

\* a - b on numbers either of which may be NaN.
Minus(a, b) == IF a = NaN \/ b = NaN THEN NaN ELSE a - b

---------------------------------------------------------------------------
(* Math on doubles, in fixed point: FP units per 1 *)

FP == 100 * 100

\* a / b rounded to nearest, sign-symmetric (b > 0).
RoundDiv(a, b) ==
    IF a >= 0 THEN (2 * a + b) \div (2 * b) ELSE -((2 * (-a) + b) \div (2 * b))

\* x * y of two fixed-point numbers.
Times(x, y) == RoundDiv(x * y, FP)

\* Math.PI
PI == 31416

HalfPI == PI \div 2

RECURSIVE Series(_, _, _)
\* term - term x2/(k(k+1)) + term x2^2/(k(k+1)(k+2)(k+3)) - ... until the terms vanish.
Series(term, x2, k) ==
    IF term = 0 THEN 0
    ELSE term + Series(-RoundDiv(Times(term, x2), k * (k + 1)), x2, k + 2)

\* Math.sin and Math.cos for |x| <= PI.
MathSin(x) ==
    IF x < 0 THEN -(IF -x > HalfPI THEN Series(PI + x, Times(PI + x, PI + x), 2)
                    ELSE Series(-x, Times(x, x), 2))
    ELSE IF x > HalfPI THEN Series(PI - x, Times(PI - x, PI - x), 2)
    ELSE Series(x, Times(x, x), 2)

MathCos(x) ==
    IF Abs(x) > HalfPI THEN -Series(FP, Times(PI - Abs(x), PI - Abs(x)), 1)
    ELSE Series(FP, Times(x, x), 1)

RECURSIVE SqrtBetween(_, _, _)
\* The largest r in lo..hi with r * r <= n.
SqrtBetween(n, lo, hi) ==
    IF lo >= hi THEN lo
    ELSE LET mid == (lo + hi + 1) \div 2
         IN  IF mid * mid <= n THEN SqrtBetween(n, mid, hi) ELSE SqrtBetween(n, lo, mid - 1)

\* Math.sqrt of a number held with FP * FP units per 1 (a product of two
\* fixed-point numbers, not yet scaled back), for x <= 1: NaN below zero.
MathSqrt(x) ==
    IF x = NaN \/ x < 0 THEN NaN
    ELSE LET r == SqrtBetween(x, 0, FP)
         IN  IF (r + 1) * (r + 1) - x < x - r * r THEN r + 1 ELSE r

\* atan(2^-i) for i = 0, 1, ...
AtanTable == <<7854, 4636, 2450, 1244, 624, 312, 156, 78, 39, 20, 10, 5, 2, 1>>

RECURSIVE Pow2(_)
Pow2(i) == IF i = 0 THEN 1 ELSE 2 * Pow2(i - 1)

RECURSIVE Rotate(_, _, _, _)
\* The angle of (x, y), x > 0, by rotating it onto the x axis in steps of atan(2^-i).
Rotate(x, y, z, i) ==
    IF i > Len(AtanTable) \/ y = 0 THEN z
    ELSE IF y > 0
         THEN Rotate(x + RoundDiv(y, Pow2(i - 1)), y - RoundDiv(x, Pow2(i - 1)), z + AtanTable[i], i + 1)
         ELSE Rotate(x - RoundDiv(y, Pow2(i - 1)), y + RoundDiv(x, Pow2(i - 1)), z - AtanTable[i], i + 1)

\* Math.atan2(y, x) for y >= 0 and x >= 0: NaN if either is.
MathAtan2(y, x) ==
    IF y = NaN \/ x = NaN THEN NaN
    ELSE IF y = 0 THEN 0
    ELSE IF x = 0 THEN HalfPI
    ELSE Rotate(x, y, 0, 1)

\* Math.round of a fixed-point number: the nearest integer, a half going up.
MathRound(x) == IF x = NaN THEN NaN ELSE (2 * x + FP) \div (2 * FP)

---------------------------------------------------------------------------
(* server/index.ts: the derived statistics *)

\* const R = 3958.8, in tenths of a mile.
R == 39588

toRad(deg) == RoundDiv(deg * PI, 180)

\* As haversineDistanceMiles, had the cosine of the first latitude been taken
\* twice.
haversineDistanceMilesOfOneLatitude(coord1, coord2) ==
    LET lat1 == coord1[1]
        lon1 == coord1[2]
        lat2 == coord2[1]
        lon2 == coord2[2]
        dLat == toRad(lat2 - lat1)
        dLon == toRad(lon2 - lon1)
        sinLat == MathSin(RoundDiv(dLat, 2))
        sinLon == MathSin(RoundDiv(dLon, 2))
        a == sinLat * sinLat
             + Times(Times(MathCos(toRad(lat1)), MathCos(toRad(lat1))), sinLon) * sinLon
        angle == MathAtan2(MathSqrt(a), MathSqrt(FP * FP - a))
    IN  IF angle = NaN THEN NaN ELSE RoundDiv(R * angle, 5)

\* The distance in miles (fixed point) between two [lat, lon] pairs of whole degrees.
haversineDistanceMiles(coord1, coord2) ==
    LET lat1 == coord1[1]
        lon1 == coord1[2]
        lat2 == coord2[1]
        lon2 == coord2[2]
        dLat == toRad(lat2 - lat1)
        dLon == toRad(lon2 - lon1)
        sinLat == MathSin(RoundDiv(dLat, 2))
        sinLon == MathSin(RoundDiv(dLon, 2))
        \* a is held with FP * FP units per 1, so that its square roots keep
        \* the precision of the sines
        a == sinLat * sinLat
             + Times(Times(MathCos(toRad(lat1)), MathCos(toRad(lat2))), sinLon) * sinLon
        angle == MathAtan2(MathSqrt(a), MathSqrt(FP * FP - a))
    \* R * 2 * angle with R in tenths: (R * 2 * angle) / 10 = (R * angle) / 5
    IN  IF angle = NaN THEN NaN ELSE RoundDiv(R * angle, 5)

\* a + b on numbers either of which may be NaN.
Plus(a, b) == IF a = NaN \/ b = NaN THEN NaN ELSE a + b

\* (a, b) => new Date(a.date).getTime() - new Date(b.date).getTime()
DateComparator(arr) ==
    LET time == [g \in Range(arr) |-> DateGetTime(g.date)]
    IN  [p \in Range(arr) \X Range(arr) |-> Minus(time[p[1]], time[p[2]])]

\* As sortedCopy, had the array been sorted where it is: games.sort(...).
sortedInPlace(arr) ==
    [sorted |-> ArraySort(arr, DateComparator(arr)), games |-> ArraySort(arr, DateComparator(arr))]

\* [...games].sort(...): the copy sorted, and the array passed in as the call
\* leaves it.
sortedCopy(arr) == [sorted |-> ArraySort(arr, DateComparator(arr)), games |-> arr]

RECURSIVE TotalFrom(_, _, _)
\* for (let i = ...; i < sorted.length; i++) total += haversineDistanceMiles(...)
TotalFrom(sorted, i, total) ==
    IF i > Len(sorted) THEN total
    ELSE TotalFrom(sorted, i + 1,
            Plus(total, haversineDistanceMiles(sorted[i - 1].coordinates, sorted[i].coordinates)))

RECURSIVE TotalOfRoundedFrom(_, _, _)
\* As TotalFrom, with every distance rounded as it is added.
TotalOfRoundedFrom(sorted, i, total) ==
    IF i > Len(sorted) THEN total
    ELSE TotalOfRoundedFrom(sorted, i + 1,
            Plus(total, MathRound(haversineDistanceMiles(sorted[i - 1].coordinates,
                                                         sorted[i].coordinates))))

\* As computeTotalMiles, had each leg been rounded and the sum returned.
computeTotalMilesRoundingLegs(arr) ==
    LET s == sortedCopy(arr)
    IN  [value |-> TotalOfRoundedFrom(s.sorted, 2, 0), games |-> s.games]

\* As computeTotalMiles, had the games been walked in the order given.
computeTotalMilesUnsorted(arr) ==
    [value |-> MathRound(TotalFrom(arr, 2, 0)), games |-> arr]

\* As computeTotalMiles, had the loop started one game late.
computeTotalMilesSkippingFirstLeg(arr) ==
    LET s == sortedCopy(arr)
    IN  [value |-> MathRound(TotalFrom(s.sorted, 3, 0)), games |-> s.games]

\* As computeTotalMiles, had total started at 1.
computeTotalMilesFromOne(arr) ==
    LET s == sortedCopy(arr)
    IN  [value |-> MathRound(TotalFrom(s.sorted, 2, FP)), games |-> s.games]

\* value: what the call returns; games: the argument array after the call.
computeTotalMiles(arr) ==
    LET s == sortedCopy(arr)
    IN  [value |-> MathRound(TotalFrom(s.sorted, 2, 0)), games |-> s.games]

\* A property name that is an array index ("0", "7", "42": canonical decimal
\* below 2^32 - 1; the model's names have fewer than ten characters).
IsArrayIndex(name) ==
    /\ Len(name) \in 1..9
    /\ \A i \in DOMAIN name : name[i] \in Digits
    /\ (Len(name) = 1 \/ name[1] # "0")

RECURSIVE IndexValue(_)
IndexValue(name) ==
    IF name = << >> THEN 0
    ELSE 10 * IndexValue(SubSeq(name, 1, Len(name) - 1)) + DigitValue(name[Len(name)])

\* As KeyBefore, had the properties been kept in the order of their creation
\* whatever their names.
KeyBeforeNever(name, other) == FALSE

\* Whether property `name`, newly created, comes before the existing property
\* `other` in the object's own-property order: array indices first, in
\* ascending order, then the other names in the order of their creation.
KeyBefore(name, other) ==
    /\ IsArrayIndex(name)
    /\ (IsArrayIndex(other) => IndexValue(name) < IndexValue(other))

\* counts is {}: an object that inherits from Object.prototype.  Of the names
\* it inherits, the model has "constructor" (a data property whose value is
\* the function Object) and "__proto__" (an accessor whose getter returns
\* Object.prototype and whose setter ignores what is not an object).
Constructor == <<"c", "o", "n", "s", "t", "r", "u", "c", "t", "o", "r">>

Proto == <<"_", "_", "p", "r", "o", "t", "o", "_", "_">>

InheritedNames == {Constructor, Proto}

\* A string that is no numeral: the text an inherited value is converted to
\* by + 1, followed by k - 1 further digits 1.
Text(k) == 0 - 1000000100 - k

IsText(v) == v <= Text(1)

\* v + 1 on a number, and on a string, to which it appends "1".
PlusOne(v) == IF IsText(v) THEN v - 1 ELSE v + 1

\* b.count - a.count: NaN when either is a string that is no numeral.
CountMinus(b, a) == IF IsText(a) \/ IsText(b) THEN NaN ELSE b - a

\* counts[name] = (counts[name] ?? 0) + 1, on the object held as the sequence
\* of its entries [name, count] in own-property order.
Incremented(counts, name) ==
    IF \E i \in DOMAIN counts : counts[i].name = name
    THEN [i \in DOMAIN counts |->
             IF counts[i].name = name
             THEN [name |-> name, count |-> PlusOne(counts[i].count)]
             ELSE counts[i]]
    ELSE IF name = Proto
    \* Object.prototype + 1 is a string, which the setter of __proto__ ignores
    THEN counts
    ELSE LET before == Cardinality({i \in DOMAIN counts : ~KeyBefore(name, counts[i].name)})
             \* an inherited value is not nullish: it is converted to text by + 1
             first == IF name \in InheritedNames THEN Text(1) ELSE 0 + 1
         IN  SubSeq(counts, 1, before)
             \o <<[name |-> name, count |-> first]>>
             \o SubSeq(counts, before + 1, Len(counts))

\* A request: which build serves it, its route, the :id of its path ("" on
\* the list route) and, as a sequence of at most one error, what it fails with.
Request(variant, route, id, failure) ==
    [variant |-> variant, route |-> route, id |-> id, failure |-> failure]

NoResponse == [request |-> Request("none", "none", "", << >>), status |-> 0, body |-> << >>]

\* As EmptyCounts, had counts been one object of the module that every call
\* adds to: what the previous detail response left in it.
LeftoverCounts ==
    IF response.status = 200 /\ response.request.variant = "server"
       /\ response.request.route = "detail"
    THEN response.body.mostCommonTeams
    ELSE << >>

\* const counts: Record<string, number> = {}
EmptyCounts == << >>

RECURSIVE Tally(_, _, _)
\* for (const game of games) { counts[home]++; counts[away]++ }
Tally(arr, i, counts) ==
    IF i > Len(arr) THEN counts
    ELSE Tally(arr, i + 1,
            Incremented(Incremented(counts, arr[i].homeTeam.name), arr[i].awayTeam.name))

\* (a, b) => b.count - a.count
CountComparator(entries) ==
    [p \in Range(entries) \X Range(entries) |-> CountMinus(p[2].count, p[1].count)]

computeMostCommonTeamsTopN(arr, topN) ==
    LET entries == Tally(arr, 1, EmptyCounts)
        sorted == ArraySort(entries, CountComparator(entries))
    IN  SubSeq(sorted, 1, Min(topN, Len(sorted)))

\* topN = 3
DefaultTopN == 3

computeMostCommonTeams(arr) == computeMostCommonTeamsTopN(arr, DefaultTopN)

\* As Deduplicated, had every date been kept as often as it occurs.
NotDeduplicated(s, seen) == s

RECURSIVE Deduplicated(_, _)
\* Array.from(new Set(s)): the first occurrence of each element, in order.
Deduplicated(s, seen) ==
    IF s = << >> THEN << >>
    ELSE IF Head(s) \in seen THEN Deduplicated(Tail(s), seen)
    ELSE <<Head(s)>> \o Deduplicated(Tail(s), seen \cup {Head(s)})

\* The comparator of sort() without an argument, on strings.
DefaultComparator(arr) ==
    [p \in Range(arr) \X Range(arr) |-> StringCompare(p[1], p[2])]

RECURSIVE StreakFromWithoutReset(_, _, _, _)
\* As StreakFrom, had the streak not been set back to 1 after a gap.
StreakFromWithoutReset(dates, i, streak, maxStreak) ==
    IF i > Len(dates) THEN maxStreak
    ELSE LET diffDays == Minus(DateGetTime(dates[i]), DateGetTime(dates[i - 1]))
         IN  IF diffDays # NaN /\ diffDays = 1
             THEN StreakFromWithoutReset(dates, i + 1, streak + 1,
                             IF streak + 1 > maxStreak THEN streak + 1 ELSE maxStreak)
             ELSE StreakFromWithoutReset(dates, i + 1, streak, maxStreak)

RECURSIVE StreakFrom(_, _, _, _)
\* The loop over the sorted dates: what maxStreak is when it ends.
StreakFrom(dates, i, streak, maxStreak) ==
    IF i > Len(dates) THEN maxStreak
    ELSE LET prev == DateGetTime(dates[i - 1])
             curr == DateGetTime(dates[i])
             diffDays == Minus(curr, prev)
         IN  IF diffDays # NaN /\ diffDays = 1
             THEN StreakFrom(dates, i + 1, streak + 1,
                             IF streak + 1 > maxStreak THEN streak + 1 ELSE maxStreak)
             ELSE StreakFrom(dates, i + 1, 1, maxStreak)

\* As computeDaysWorkedStreak, without the return for no dates.
computeDaysWorkedStreakWithoutEmptyCase(arr) ==
    LET mapped == [i \in DOMAIN arr |-> arr[i].date]
        unique == Deduplicated(mapped, {})
        dates == ArraySort(unique, DefaultComparator(unique))
    IN  StreakFrom(dates, 2, 1, 1)

computeDaysWorkedStreak(arr) ==
    LET mapped == [i \in DOMAIN arr |-> arr[i].date]
        unique == Deduplicated(mapped, {})
        dates == ArraySort(unique, DefaultComparator(unique))
    IN  IF Len(dates) = 0 THEN 0 ELSE StreakFrom(dates, 2, 1, 1)

---------------------------------------------------------------------------
(* The statistics as section 4.1 of the specification words them: what the *)
(* offline build (server/data/parse_referees.py) and the data module of    *)
(* backend/src/server.ts store with a referee.  Defined for games lists    *)
(* whose dates are all dates.                                              *)

\* The games in ascending order of date, games of one date in list order.
StableByDate(arr) ==
    LET time == [i \in DOMAIN arr |-> DateGetTime(arr[i].date)]
        p == CHOOSE q \in Perms(Len(arr)) :
                 \A i, j \in 1..Len(arr) : i < j =>
                     \/ time[q[i]] < time[q[j]]
                     \/ (time[q[i]] = time[q[j]] /\ q[i] < q[j])
    IN  Permuted(arr, p)

RECURSIVE SumOfLegs(_)
SumOfLegs(arr) ==
    IF Len(arr) < 2 THEN 0
    ELSE Plus(haversineDistanceMiles(arr[1].coordinates, arr[2].coordinates), SumOfLegs(Tail(arr)))

storedTotalMiles(arr) == MathRound(SumOfLegs(StableByDate(arr)))

\* The team names in the order they are first met: home before away.
RECURSIVE TeamsOf(_)
TeamsOf(arr) ==
    IF arr = << >> THEN << >>
    ELSE <<Head(arr).homeTeam.name, Head(arr).awayTeam.name>> \o TeamsOf(Tail(arr))

Appearances(arr, name) ==
    Cardinality({i \in DOMAIN arr : arr[i].homeTeam.name = name})
    + Cardinality({i \in DOMAIN arr : arr[i].awayTeam.name = name})

storedMostCommonTeams(arr) ==
    LET teams == Deduplicated(TeamsOf(arr), {})
        count == [i \in DOMAIN teams |-> Appearances(arr, teams[i])]
        p == CHOOSE q \in Perms(Len(teams)) :
                 \A i, j \in 1..Len(teams) : i < j =>
                     \/ count[q[i]] > count[q[j]]
                     \/ (count[q[i]] = count[q[j]] /\ q[i] < q[j])
        ranked == [i \in 1..Len(teams) |-> [name |-> teams[p[i]], count |-> count[p[i]]]]
    IN  SubSeq(ranked, 1, Min(DefaultTopN, Len(ranked)))

\* The length of the longest run of consecutive calendar days worked.
storedDaysWorkedStreak(arr) ==
    LET days == {DateGetTime(arr[i].date) : i \in DOMAIN arr}
        runs == {k \in 1..Cardinality(days) :
                    \E d \in days : \A j \in 0..(k - 1) : d + j \in days}
    IN  IF days = {} THEN 0 ELSE CHOOSE k \in runs : \A m \in runs : m <= k

---------------------------------------------------------------------------
(* The datasets and requests the model draws from *)

MaxReferees == 2

MaxGames == 3

Date(m1, m2, d1, d2) == <<"2", "0", "2", "4", "-", m1, m2, "-", d1, d2>>

Jan01 == Date("0", "1", "0", "1")
Jan02 == Date("0", "1", "0", "2")
Jan03 == Date("0", "1", "0", "3")
Jan10 == Date("0", "1", "1", "0")
NotADate == <<"n", "o", "t", "-", "a", "-", "d", "a", "t", "e">>

Duke == <<"D", "u", "k", "e">>
Kent == <<"K", "e", "n", "t">>
Team76 == <<"7", "6">>

Philadelphia == <<40, -75>>
NewYork == <<41, -74>>
LosAngeles == <<34, -118>>

Game(date, location, coordinates, home, away) ==
    [date |-> date, location |-> location, coordinates |-> coordinates,
     homeTeam |-> [name |-> home], awayTeam |-> [name |-> away]]

\* The games of the served datasets: valid dates, two of them on one day.
GameA == Game(Jan01, "Philadelphia, PA", Philadelphia, Duke, Kent)
GameB == Game(Jan02, "New York, NY", NewYork, Kent, Team76)
GameC == Game(Jan02, "Los Angeles, CA", LosAngeles, Duke, Team76)

RefereeIds == {"r1", "R1"}

RequestIds == {"r1", "R1", "unknown-id"}

\* A record of referees.json: totalMilesTravelled is Undefined when the file
\* does not give it, and what the offline build computed when it does.
RefereePool ==
    {[id |-> "r1", name |-> "Ann Poe", games |-> << >>, totalMilesTravelled |-> Undefined]}
    \cup {[id |-> id, name |-> "Jane Doe", games |-> <<GameB, GameA>>,
           totalMilesTravelled |-> Undefined] : id \in RefereeIds}
    \cup {[id |-> id, name |-> "John Roe", games |-> <<GameC, GameA, GameB>>,
           totalMilesTravelled |-> storedTotalMiles(<<GameC, GameA, GameB>>)] :
        id \in RefereeIds}

\* What a request can fail with before or in its route: an Error with or
\* without status, statusCode and message.
Errors ==
    {[status |-> 400, statusCode |-> 400, message |-> "Unexpected token } in JSON"],
     [status |-> Undefined, statusCode |-> 413, message |-> "request entity too large"],
     [status |-> Undefined, statusCode |-> Undefined, message |-> "boom"],
     [status |-> Undefined, statusCode |-> Undefined, message |-> ""]}

\* The games of the function-level runs: one more day, a date that is none,
\* and a second game on the day and at the place of GameB.
GameD == Game(Jan03, "Philadelphia, PA", Philadelphia, Kent, Duke)
GameE == Game(NotADate, "New York, NY", NewYork, Duke, Kent)
GameF == Game(Jan02, "New York, NY", NewYork, Duke, Kent)

\* Two places with valid coordinates on opposite sides of the globe.
North12 == <<12, 0>>
South12 == <<0 - 12, 180>>

\* Two games there, of teams whose names counts inherits.
GameG == Game(Jan03, "12N 0E", North12, Constructor, Duke)
GameH == Game(Jan10, "12S 180E", South12, Proto, Kent)

GamePool == {GameA, GameB, GameC, GameD, GameE, GameF, GameG, GameH}

\* The games of the runs of computeDaysWorkedStreak alone: one game a day, on
\* days next to each other, apart, and on both sides of the end of a month.
MaxDates == 4

Jan31 == Date("0", "1", "3", "1")
Feb01 == Date("0", "2", "0", "1")

DatePool == {Jan01, Jan02, Jan03, Jan10, Jan31, Feb01}

GameOn(date) == Game(date, "Philadelphia, PA", Philadelphia, Duke, Kent)

\* The places of the runs of haversineDistanceMiles alone: the places of the
\* games, the poles, and places on the equator and on the date line.
Sydney == <<0 - 34, 151>>
London == <<51, 0>>

CoordinatePool ==
    {Philadelphia, NewYork, LosAngeles, North12, South12, Sydney, London,
     <<0, 0>>, <<0, 180>>, <<0, 0 - 180>>, <<90, 0>>, <<0 - 90, 0>>}

\* The largest topN passed explicitly.
MaxTopN == 5

---------------------------------------------------------------------------
(* The query service *)

\* JSON.stringify of a number: NaN is written null.
JsonNumber(x) == IF x = NaN THEN Null ELSE x

LowerCase(id) == IF id = "R1" THEN "r1" ELSE id

\* As FindById, had the ids been compared without regard to case.
FindByIdIgnoringCase(refs, id) ==
    IF \E i \in DOMAIN refs : LowerCase(refs[i].id) = LowerCase(id)
    THEN CHOOSE i \in DOMAIN refs :
             /\ LowerCase(refs[i].id) = LowerCase(id)
             /\ \A j \in DOMAIN refs : LowerCase(refs[j].id) = LowerCase(id) => i <= j
    ELSE 0

\* referees.find((r) => r.id === id): the index of the first match, 0 for none.
FindById(refs, id) ==
    IF \E i \in DOMAIN refs : refs[i].id = id
    THEN CHOOSE i \in DOMAIN refs :
             refs[i].id = id /\ \A j \in DOMAIN refs : refs[j].id = id => i <= j
    ELSE 0

\* As listReferees, had gameCount been the length of the wrong array.
listRefereesCountingReferees(refs) ==
    [status |-> 200,
     body |-> [i \in DOMAIN refs |->
                  [id |-> refs[i].id, name |-> refs[i].name, gameCount |-> Len(refs)]],
     referees |-> refs]

\* app.get("/api/referees") of server/index.ts
listReferees(refs) ==
    [status |-> 200,
     body |-> [i \in DOMAIN refs |->
                  [id |-> refs[i].id, name |-> refs[i].name, gameCount |-> Len(refs[i].games)]],
     referees |-> refs]

\* referee.totalMilesTravelled ?? computeTotalMiles(referee.games)
totalMilesOf(referee) ==
    IF referee.totalMilesTravelled \notin {Undefined, Null}
    THEN [value |-> referee.totalMilesTravelled, games |-> referee.games]
    ELSE computeTotalMiles(referee.games)

\* As getReferee, had the games been returned in date order.
getRefereeSortingGames(refs, id) ==
    LET i == FindById(refs, id)
    IN  IF i = 0
        THEN [status |-> 404, body |-> [error |-> "Referee not found"], referees |-> refs]
        ELSE LET referee == refs[i]
                 miles == totalMilesOf(referee)
             IN  [status |-> 200,
                  body |-> [id |-> referee.id,
                            name |-> referee.name,
                            games |-> sortedCopy(referee.games).sorted,
                            totalMilesTravelled |-> JsonNumber(miles.value),
                            mostCommonTeams |-> computeMostCommonTeams(miles.games),
                            daysWorkedStreak |-> JsonNumber(computeDaysWorkedStreak(miles.games))],
                  referees |-> refs]

\* app.get("/api/referees/:id") of server/index.ts: the response, and the
\* dataset as the handler leaves it.
getReferee(refs, id) ==
    LET i == FindById(refs, id)
    IN  IF i = 0
        THEN [status |-> 404, body |-> [error |-> "Referee not found"], referees |-> refs]
        ELSE LET referee == refs[i]
                 miles == totalMilesOf(referee)
             IN  [status |-> 200,
                  body |-> [id |-> referee.id,
                            name |-> referee.name,
                            games |-> miles.games,
                            totalMilesTravelled |-> JsonNumber(miles.value),
                            mostCommonTeams |-> computeMostCommonTeams(miles.games),
                            daysWorkedStreak |-> JsonNumber(computeDaysWorkedStreak(miles.games))],
                  referees |-> [refs EXCEPT ![i].games = miles.games]]

\* As errorMiddleware, had it answered 500 whatever the error carries.
errorMiddlewareAlways500(err) ==
    [status |-> 500,
     body |-> [message |-> IF err.message # "" THEN err.message ELSE "Internal Server Error"]]

\* The error middleware of server/index.ts.
errorMiddleware(err) ==
    [status |-> IF err.status \notin {Undefined, 0} THEN err.status
                ELSE IF err.statusCode \notin {Undefined, 0} THEN err.statusCode
                ELSE 500,
     body |-> [message |-> IF err.message # "" THEN err.message ELSE "Internal Server Error"]]

\* import { referees } from './data' of backend/src/server.ts: the records
\* with their statistics stored alongside.
dataReferees(refs) ==
    [i \in DOMAIN refs |->
        [id |-> refs[i].id,
         name |-> refs[i].name,
         games |-> refs[i].games,
         totalMilesTravelled |-> storedTotalMiles(refs[i].games),
         mostCommonTeams |-> storedMostCommonTeams(refs[i].games),
         daysWorkedStreak |-> storedDaysWorkedStreak(refs[i].games)]]

\* app.get('/api/referees') of backend/src/server.ts
backendListReferees(rows) ==
    [status |-> 200,
     body |-> [i \in DOMAIN rows |->
                  [id |-> rows[i].id, name |-> rows[i].name, gameCount |-> Len(rows[i].games)]]]

\* app.get('/api/referees/:id') of backend/src/server.ts
backendGetReferee(rows, id) ==
    LET i == FindById(rows, id)
    IN  IF i = 0
        THEN [status |-> 404, body |-> [error |-> "Referee not found"]]
        ELSE [status |-> 200, body |-> rows[i]]

---------------------------------------------------------------------------
(* The service as a state machine: the dataset is loaded, then requests are *)
(* served one at a time.                                                   *)

NoResult == [fn |-> "none", ret |-> 0, threw |-> FALSE]

\* null where a Referee may stand (a record, as a Referee is).
NullReferee == [null |-> TRUE]

\* null where a referee id may stand (a string, as an id is).
NullId == ""

\* null where a TooltipState may stand (a record, as a TooltipState is).
NullTooltip == [null |-> TRUE]

\* The App as its useState calls leave it, before any request.
AppIdle ==
    /\ selectedReferee = NullReferee
    /\ selectedRefereeId = NullId
    /\ detailLoading = FALSE
    /\ isSidebarOpen = FALSE
    /\ requests = << >>

\* What the useMemo calls of the map hold when no map is rendered.
NothingDerived ==
    [sortedGames |-> << >>, cityGroups |-> << >>, timelineStops |-> << >>, routePoints |-> << >>]

NoEvent == [name |-> "none", playing |-> FALSE, shown |-> FALSE, pending |-> FALSE]

\* No MapVisualization is mounted.
MapIdle ==
    /\ props = [referee |-> NullReferee]
    /\ memo = NothingDerived
    /\ tooltip = NullTooltip
    /\ isTimelinePlaying = FALSE
    /\ timelineProgress = 0
    /\ tooltipHideTimeoutRef = Null
    /\ frameId = Undefined
    /\ animationFrames = {}
    /\ timeouts = {}
    /\ lastEvent = NoEvent

StatsIdle == games = << >> /\ result = NoResult

Init ==
    /\ referees \in SeqsUpTo(RefereePool, MaxReferees)
    /\ loaded = referees
    /\ data = dataReferees(referees)
    /\ response = NoResponse
    /\ remembered = NoResponse
    /\ StatsIdle
    /\ AppIdle
    /\ MapIdle

\* The request is answered; the one answered before it may be remembered.
Served(req, status, body) ==
    /\ response' = [request |-> req, status |-> status, body |-> body]
    /\ remembered' \in {remembered, response}
    /\ UNCHANGED <<loaded, data, games, result, appVars, mapVars>>

ListReferees ==
    LET out == listReferees(referees)
    IN  /\ Served(Request("server", "list", "", << >>), out.status, out.body)
        /\ referees' = out.referees

GetReferee(id) ==
    LET out == getReferee(referees, id)
    IN  /\ Served(Request("server", "detail", id, << >>), out.status, out.body)
        /\ referees' = out.referees

\* A request that fails with err on its way: the error middleware answers.
FailingRequest(err) ==
    LET out == errorMiddleware(err)
    IN  /\ Served(Request("server", "list", "", <<err>>), out.status, out.body)
        /\ UNCHANGED referees

BackendListReferees ==
    LET out == backendListReferees(data)
    IN  /\ Served(Request("backend", "list", "", << >>), out.status, out.body)
        /\ UNCHANGED referees

BackendGetReferee(id) ==
    LET out == backendGetReferee(data, id)
    IN  /\ Served(Request("backend", "detail", id, << >>), out.status, out.body)
        /\ UNCHANGED referees

Next ==
    \/ ListReferees
    \/ \E id \in RequestIds : GetReferee(id)
    \/ \E err \in Errors : FailingRequest(err)
    \/ BackendListReferees
    \/ \E id \in RequestIds : BackendGetReferee(id)

Spec == Init /\ [][Next]_vars

---------------------------------------------------------------------------
(* The statistics functions on their own: a games list is drawn, then the  *)
(* functions are called on it.                                             *)

ServiceIdle ==
    referees = << >> /\ loaded = << >> /\ data = << >> /\ response = NoResponse /\ remembered = NoResponse

InitStats ==
    /\ games \in SeqsUpTo(GamePool, MaxGames)
    /\ result = NoResult
    /\ ServiceIdle
    /\ AppIdle
    /\ MapIdle

\* The functions have no throw of their own, and nothing they call throws on
\* a string or a number: a call returns.
Returned(fn, ret) ==
    /\ result' = [fn |-> fn, ret |-> ret, threw |-> FALSE]
    /\ UNCHANGED <<serviceVars, appVars, mapVars>>

CallComputeTotalMiles ==
    LET out == computeTotalMiles(games)
    IN  /\ Returned("computeTotalMiles", out.value)
        /\ games' = out.games

CallComputeMostCommonTeams ==
    /\ Returned("computeMostCommonTeams", computeMostCommonTeams(games))
    /\ UNCHANGED games

\* computeMostCommonTeams(games, topN) with topN given.
CallComputeMostCommonTeamsTopN ==
    \E topN \in 0..MaxTopN :
        /\ result' = [fn |-> "computeMostCommonTeams",
                      ret |-> computeMostCommonTeamsTopN(games, topN),
                      threw |-> FALSE,
                      topN |-> topN]
        /\ UNCHANGED <<serviceVars, games, appVars, mapVars>>

CallComputeDaysWorkedStreak ==
    /\ Returned("computeDaysWorkedStreak", computeDaysWorkedStreak(games))
    /\ UNCHANGED games

NextStats ==
    \/ CallComputeTotalMiles
    \/ CallComputeMostCommonTeams
    \/ CallComputeMostCommonTeamsTopN
    \/ CallComputeDaysWorkedStreak

SpecStats == InitStats /\ [][NextStats]_vars

---------------------------------------------------------------------------
(* haversineDistanceMiles on its own, on two places *)

InitHaversine ==
    /\ games = << >>
    /\ result = NoResult
    /\ ServiceIdle
    /\ AppIdle
    /\ MapIdle

CallHaversineDistanceMiles ==
    \E coord1 \in CoordinatePool, coord2 \in CoordinatePool :
        /\ result' = [fn |-> "haversineDistanceMiles",
                      ret |-> haversineDistanceMiles(coord1, coord2),
                      threw |-> FALSE,
                      coord1 |-> coord1,
                      coord2 |-> coord2]
        /\ UNCHANGED <<serviceVars, games, appVars, mapVars>>

NextHaversine == CallHaversineDistanceMiles

SpecHaversine == InitHaversine /\ [][NextHaversine]_vars

---------------------------------------------------------------------------
(* computeDaysWorkedStreak on its own, on longer lists of dated games *)

InitStreak ==
    /\ games \in SeqsUpTo({GameOn(date) : date \in DatePool}, MaxDates)
    /\ result = NoResult
    /\ ServiceIdle
    /\ AppIdle
    /\ MapIdle

NextStreak == CallComputeDaysWorkedStreak

SpecStreak == InitStreak /\ [][NextStreak]_vars

---------------------------------------------------------------------------
(* MapVisualization: what it derives from the referee's games *)

\* null where a projected point may stand (a tuple, as a point is).
NullPoint == << >>

\* The places of the games that geoAlbersUsa projects: it returns null for a
\* place outside the United States.
InsideUs == {Philadelphia, NewYork, LosAngeles}

\* projection([lon, lat]): the point on the map, which stands for itself.
projection(lonLat) ==
    IF <<lonLat[2], lonLat[1]>> \in InsideUs THEN lonLat ELSE NullPoint

\* [...referee.games].sort((a, b) => new Date(a.date).getTime() - new Date(b.date).getTime())
sortedGames(arr) == sortedCopy(arr).sorted

DigitChar(d) ==
    CASE d = 0 -> "0" [] d = 1 -> "1" [] d = 2 -> "2" [] d = 3 -> "3" [] d = 4 -> "4"
      [] d = 5 -> "5" [] d = 6 -> "6" [] d = 7 -> "7" [] d = 8 -> "8" [] d = 9 -> "9"

RECURSIVE DigitsOf(_)
DigitsOf(n) ==
    IF n < 10 THEN <<DigitChar(n)>> ELSE Append(DigitsOf(n \div 10), DigitChar(n % 10))

\* `${n}` of a whole number
NumberToString(n) == IF n < 0 THEN <<"-">> \o DigitsOf(0 - n) ELSE DigitsOf(n)

\* `${game.coordinates[0]},${game.coordinates[1]}`
coordinatesKey(coordinates) ==
    NumberToString(coordinates[1]) \o <<",">> \o NumberToString(coordinates[2])

\* The entry of the Map with this key: its position in insertion order, 0 for
\* none (map.has(key) is false).
EntryOf(entries, key) ==
    IF \E j \in DOMAIN entries : entries[j].key = key
    THEN CHOOSE j \in DOMAIN entries : entries[j].key = key
    ELSE 0

NewGroup(game, index) ==
    [location |-> game.location, coordinates |-> game.coordinates,
     games |-> <<game>>, indices |-> <<index>>]

\* As cityGroupsFrom, had every game been given a group of its own.
RECURSIVE cityGroupsFromNeverMerging(_, _, _)
cityGroupsFromNeverMerging(sorted, i, entries) ==
    IF i > Len(sorted) THEN entries
    ELSE cityGroupsFromNeverMerging(sorted, i + 1,
             Append(entries, [key |-> coordinatesKey(sorted[i].coordinates),
                              group |-> NewGroup(sorted[i], i - 1)]))

\* sortedGames.forEach((game, index) => ...) from the game at position i on
\* (index i - 1), with the entries of the Map in insertion order.
RECURSIVE cityGroupsFrom(_, _, _)
cityGroupsFrom(sorted, i, entries) ==
    IF i > Len(sorted) THEN entries
    ELSE LET game == sorted[i]
             key == coordinatesKey(game.coordinates)
             j == EntryOf(entries, key)
         IN  IF j # 0
             THEN cityGroupsFrom(sorted, i + 1,
                      [entries EXCEPT ![j].group.games = Append(@, game),
                                      ![j].group.indices = Append(@, i - 1)])
             ELSE cityGroupsFrom(sorted, i + 1,
                      Append(entries, [key |-> key, group |-> NewGroup(game, i - 1)]))

\* cityGroups: Array.from(map.values())
cityGroups(sorted) ==
    LET entries == cityGroupsFrom(sorted, 1, << >>)
    IN  [j \in DOMAIN entries |-> entries[j].group]

\* timelineStops: the games whose place has a point, with their positions.
RECURSIVE timelineStopsFrom(_, _)
timelineStopsFrom(sorted, i) ==
    IF i > Len(sorted) THEN << >>
    ELSE LET point == projection(<<sorted[i].coordinates[2], sorted[i].coordinates[1]>>)
         IN  IF point = NullPoint
             THEN timelineStopsFrom(sorted, i + 1)
             ELSE <<[gameIndex |-> i - 1, point |-> point]>> \o timelineStopsFrom(sorted, i + 1)

timelineStops(sorted) == timelineStopsFrom(sorted, 1)

routePoints(stops) == [k \in DOMAIN stops |-> stops[k].point]

---------------------------------------------------------------------------
(* The App component with the MapVisualization it renders: the referee      *)
(* picked in the sidebar is fetched, the answers are applied as they        *)
(* arrive, and the map plays the timeline and shows the tooltips.           *)

\* The most detail requests started in one run.
MaxRequests == 2

\* The dataset behind /api/referees/:id in the runs of the App: the sidebar
\* lists its ids, so these are the ids that can be picked. The third referee
\* has a game outside the United States.
ListedReferees ==
    <<[id |-> "r1", name |-> "Jane Doe", games |-> <<GameB, GameA>>,
       totalMilesTravelled |-> Undefined],
      [id |-> "R1", name |-> "John Roe", games |-> <<GameC, GameA, GameB>>,
       totalMilesTravelled |-> storedTotalMiles(<<GameC, GameA, GameB>>)],
      [id |-> "r3", name |-> "Ann Poe", games |-> <<GameG, GameA>>,
       totalMilesTravelled |-> Undefined]>>

ListedIds == {ListedReferees[i].id : i \in DOMAIN ListedReferees}

\* res.json() of the answer to fetch(`/api/referees/${id}`)
detailOf(id) == getReferee(ListedReferees, id).body

Details == [id \in ListedIds |-> detailOf(id)]

\* referee.id of what selectedReferee holds, null when it holds none.
IdOf(r) == IF "id" \in DOMAIN r THEN r.id ELSE NullId

\* The useMemo values of the map rendered with the referee r.
DerivedOf(r) ==
    IF r = NullReferee THEN NothingDerived
    ELSE LET sorted == sortedGames(r.games)
             stops == timelineStops(sorted)
         IN  [sortedGames |-> sorted,
              cityGroups |-> cityGroups(sorted),
              timelineStops |-> stops,
              routePoints |-> routePoints(stops)]

\* detailLoading ? loading : selectedReferee ? <MapVisualization .../> : welcome
Rendered(loading, selected) == ~loading /\ selected # NullReferee

Mounted == Rendered(detailLoading, selectedReferee)

\* const segmentDurationMs = 900
segmentDurationMs == 900

\* The time between two animation frames is one or two times this.
FrameMs == 450

FrameDeltas == {FrameMs, 2 * FrameMs}

\* What ran last, with what it found: a playback running, a tooltip shown, a
\* timeout pending (history).
Event(name) ==
    [name |-> name, playing |-> isTimelinePlaying, shown |-> tooltip # NullTooltip,
     pending |-> timeouts # {}]

\* window.cancelAnimationFrame(id) and window.clearTimeout(id)
Without(pending, id) == {p \in pending : p.id # id}

\* The id that requestAnimationFrame or setTimeout returns: one that no
\* pending request has.
NewId(pending) ==
    CHOOSE n \in 1..(Cardinality(pending) + 1) :
        /\ \A p \in pending : p.id # n
        /\ \A m \in 1..(n - 1) : \E p \in pending : p.id = m

\* As timelineEffect, had its cleanup not cancelled the frame.
timelineEffectWithoutCleanup(playing, route, frames, fid, changed) ==
    IF ~changed
    THEN [animationFrames |-> frames, frameId |-> fid]
    ELSE IF ~playing \/ Len(route) < 2
         THEN [animationFrames |-> frames, frameId |-> Undefined]
         ELSE LET id == NewId(frames)
              IN  [animationFrames |->
                       frames \cup {[id |-> id, started |-> FALSE, elapsed |-> 0,
                                     totalSegments |-> Len(route) - 1]},
                   frameId |-> id]

\* The timeline effect after a render with these values of isTimelinePlaying
\* and routePoints: when one of them changed, the cleanup of the effect in
\* force cancels its frame, and the effect requests a frame for a tick with
\* startTime 0 unless it returns early. A frame carries what its tick closes
\* over: whether startTime is set, the time elapsed since, and totalSegments.
timelineEffect(playing, route, frames, fid, changed) ==
    IF ~changed
    THEN [animationFrames |-> frames, frameId |-> fid]
    ELSE LET cleaned == Without(frames, fid)
         IN  IF ~playing \/ Len(route) < 2
             THEN [animationFrames |-> cleaned, frameId |-> Undefined]
             ELSE LET id == NewId(cleaned)
                  IN  [animationFrames |->
                           cleaned \cup {[id |-> id, started |-> FALSE, elapsed |-> 0,
                                          totalSegments |-> Len(route) - 1]},
                       frameId |-> id]

\* The renders that follow a change of state or props, with their effects:
\* the timeline effect of the render with the new props, and, when the reset
\* effect ran (the id changed), the state it sets and the timeline effect of
\* the render that follows.
Rerendered(playing, progress, tip, route, routeChanged, idChanged) ==
    LET first == timelineEffect(playing, route, animationFrames, frameId,
                                routeChanged \/ playing # isTimelinePlaying)
    IN  IF ~idChanged
        THEN /\ isTimelinePlaying' = playing
             /\ timelineProgress' = progress
             /\ tooltip' = tip
             /\ animationFrames' = first.animationFrames
             /\ frameId' = first.frameId
        ELSE LET second == timelineEffect(FALSE, route, first.animationFrames,
                                          first.frameId, playing)
             IN  /\ isTimelinePlaying' = FALSE
                 /\ timelineProgress' = 0
                 /\ tooltip' = NullTooltip
                 /\ animationFrames' = second.animationFrames
                 /\ frameId' = second.frameId

\* The map is rendered for the first time with this referee: its state is as
\* useState and useRef give it, the reset effect sets what is set already and
\* the timeline effect returns early.
MountMap(r) ==
    /\ props' = [referee |-> r]
    /\ memo' = DerivedOf(r)
    /\ tooltip' = NullTooltip
    /\ isTimelinePlaying' = FALSE
    /\ timelineProgress' = 0
    /\ tooltipHideTimeoutRef' = Null
    /\ frameId' = Undefined
    /\ UNCHANGED <<animationFrames, timeouts>>
    /\ lastEvent' = Event("mount")

\* The map is no longer rendered: the cleanups of its effects clear the
\* timeout of the ref and cancel the frame, and its state is gone.
UnmountMap ==
    /\ props' = [referee |-> NullReferee]
    /\ memo' = NothingDerived
    /\ tooltip' = NullTooltip
    /\ isTimelinePlaying' = FALSE
    /\ timelineProgress' = 0
    /\ tooltipHideTimeoutRef' = Null
    /\ frameId' = Undefined
    /\ animationFrames' = Without(animationFrames, frameId)
    /\ timeouts' = Without(timeouts, tooltipHideTimeoutRef)
    /\ lastEvent' = Event("unmount")

\* The map is rendered again with another referee object.
ChangeReferee(r) ==
    /\ props' = [referee |-> r]
    /\ memo' = DerivedOf(r)
    /\ Rerendered(isTimelinePlaying, timelineProgress, tooltip,
                  memo'.routePoints, TRUE, IdOf(r) # IdOf(props.referee))
    /\ UNCHANGED <<tooltipHideTimeoutRef, timeouts>>
    /\ lastEvent' = IF IdOf(r) # IdOf(props.referee) THEN Event("refereeIdChanged")
                    ELSE Event("refereeChanged")

InitApp ==
    /\ AppIdle
    /\ MapIdle
    /\ ServiceIdle
    /\ StatsIdle

\* handleSelectReferee(id) up to the fetch: the request is started, and the
\* loading message replaces the map.
handleSelectReferee(id) ==
    /\ Len(requests) < MaxRequests
    /\ selectedRefereeId' = id
    /\ detailLoading' = TRUE
    /\ isSidebarOpen' = FALSE
    /\ requests' = Append(requests, [id |-> id, state |-> "pending"])
    /\ UNCHANGED <<selectedReferee, serviceVars, functionVars>>
    /\ IF Mounted THEN UnmountMap ELSE UNCHANGED mapVars

\* .then((data: Referee) => { setSelectedReferee(data); setDetailLoading(false); })
\* of request i, whichever pending request the answer belongs to.
DetailResolved(i) ==
    /\ requests[i].state = "pending"
    /\ requests' = [requests EXCEPT ![i].state = "fulfilled"]
    /\ selectedReferee' = Details[requests[i].id]
    /\ detailLoading' = FALSE
    /\ UNCHANGED <<selectedRefereeId, isSidebarOpen, serviceVars, functionVars>>
    /\ IF Mounted THEN ChangeReferee(Details[requests[i].id])
       ELSE MountMap(Details[requests[i].id])

\* .catch(() => setDetailLoading(false)) of request i: the fetch or the
\* parsing of its answer failed.
DetailRejected(i) ==
    /\ requests[i].state = "pending"
    /\ requests' = [requests EXCEPT ![i].state = "rejected"]
    /\ detailLoading' = FALSE
    /\ UNCHANGED <<selectedReferee, selectedRefereeId, isSidebarOpen, serviceVars, functionVars>>
    /\ IF ~Mounted /\ Rendered(FALSE, selectedReferee) THEN MountMap(selectedReferee)
       ELSE UNCHANGED mapVars

\* onClick={() => setIsSidebarOpen(o => !o)} of the hamburger button
ToggleSidebar ==
    /\ isSidebarOpen' = ~isSidebarOpen
    /\ UNCHANGED <<selectedReferee, selectedRefereeId, detailLoading, requests, mapVars,
                   serviceVars, functionVars>>

\* onClose={() => setIsSidebarOpen(false)} of the sidebar
CloseSidebar ==
    /\ isSidebarOpen' = FALSE
    /\ UNCHANGED <<selectedReferee, selectedRefereeId, detailLoading, requests, mapVars,
                   serviceVars, functionVars>>

\* handlePlayTimeline, the button being enabled
handlePlayTimeline ==
    /\ Mounted
    /\ ~(isTimelinePlaying \/ Len(memo.routePoints) < 2)
    /\ IF Len(memo.routePoints) < 2
       THEN UNCHANGED <<tooltip, isTimelinePlaying, timelineProgress, animationFrames, frameId>>
       ELSE Rerendered(TRUE, 0, NullTooltip, memo.routePoints, FALSE, FALSE)
    /\ lastEvent' = Event("handlePlayTimeline")
    /\ UNCHANGED <<props, memo, tooltipHideTimeoutRef, timeouts, appVars, serviceVars,
                   functionVars>>

\* handleStopTimeline, the button being rendered
handleStopTimeline ==
    /\ Mounted
    /\ isTimelinePlaying
    /\ Rerendered(FALSE, 0, NullTooltip, memo.routePoints, FALSE, FALSE)
    /\ lastEvent' = Event("handleStopTimeline")
    /\ UNCHANGED <<props, memo, tooltipHideTimeoutRef, timeouts, appVars, serviceVars,
                   functionVars>>

\* As tick, had the progress not been capped at totalSegments.
tickWithoutMin(f, delta) ==
    LET elapsed == IF f.started THEN f.elapsed + delta ELSE 0
        total == f.totalSegments * segmentDurationMs
        nextProgress == elapsed
        ran == animationFrames \ {f}
    IN  /\ f \in animationFrames
        /\ timelineProgress' = nextProgress
        /\ IF nextProgress < total
           THEN LET id == NewId(ran)
                IN  /\ animationFrames' =
                           ran \cup {[id |-> id, started |-> TRUE, elapsed |-> elapsed,
                                      totalSegments |-> f.totalSegments]}
                    /\ frameId' = IF f.id = frameId THEN id ELSE frameId
                    /\ UNCHANGED isTimelinePlaying
           ELSE LET after == timelineEffect(FALSE, memo.routePoints, ran, frameId,
                                            isTimelinePlaying)
                IN  /\ isTimelinePlaying' = FALSE
                    /\ animationFrames' = after.animationFrames
                    /\ frameId' = after.frameId
        /\ lastEvent' = Event("tick")
        /\ UNCHANGED <<props, memo, tooltip, tooltipHideTimeoutRef, timeouts, appVars, serviceVars,
                       functionVars>>

\* tick(timestamp) of the frame f, delta after the frame before it. The
\* timestamps are above 0, so startTime === 0 holds at the first tick of an
\* effect and at no other.
tick(f, delta) ==
    LET elapsed == IF f.started THEN f.elapsed + delta ELSE 0
        total == f.totalSegments * segmentDurationMs
        nextProgress == Min(total, elapsed)
        ran == animationFrames \ {f}
    IN  /\ f \in animationFrames
        /\ timelineProgress' = nextProgress
        /\ IF nextProgress < total
           THEN LET id == NewId(ran)
                IN  /\ animationFrames' =
                           ran \cup {[id |-> id, started |-> TRUE, elapsed |-> elapsed,
                                      totalSegments |-> f.totalSegments]}
                    /\ frameId' = IF f.id = frameId THEN id ELSE frameId
                    /\ UNCHANGED isTimelinePlaying
           ELSE LET after == timelineEffect(FALSE, memo.routePoints, ran, frameId,
                                            isTimelinePlaying)
                IN  /\ isTimelinePlaying' = FALSE
                    /\ animationFrames' = after.animationFrames
                    /\ frameId' = after.frameId
        /\ lastEvent' = Event("tick")
        /\ UNCHANGED <<props, memo, tooltip, tooltipHideTimeoutRef, timeouts, appVars, serviceVars,
                       functionVars>>

\* visibleGameIndex, with Number.POSITIVE_INFINITY as a number above every index
visibleGameIndex ==
    IF ~isTimelinePlaying THEN Len(memo.sortedGames)
    ELSE IF Len(memo.timelineStops) = 0 THEN 0 - 1
    ELSE LET visibleStops ==
                 Min(Len(memo.timelineStops), (timelineProgress \div segmentDurationMs) + 1)
         IN  IF visibleStops <= 0 THEN 0 - 1
             ELSE memo.timelineStops[visibleStops].gameIndex

\* The marker of the group is rendered.
MarkerRendered(group) ==
    /\ ~(isTimelinePlaying /\ ~\E k \in DOMAIN group.indices : group.indices[k] <= visibleGameIndex)
    /\ projection(<<group.coordinates[2], group.coordinates[1]>>) # NullPoint

\* As cancelled, had the timeout been left pending.
cancelledNothing(pending, ref) == [timeouts |-> pending, ref |-> ref]

\* cancelTooltipHide on these timeouts and this ref
cancelled(pending, ref) ==
    IF ref # Null
    THEN [timeouts |-> Without(pending, ref), ref |-> Null]
    ELSE [timeouts |-> pending, ref |-> ref]

\* A timeout that is still pending when a tooltip is shown was set before it
\* (history).
BeforeShown(pending) == {[p EXCEPT !.beforeShown = TRUE] : p \in pending}

\* showTooltip of the marker of a group: onMouseEnter, onFocus, Enter or Space
showTooltip(group) ==
    LET after == cancelled(timeouts, tooltipHideTimeoutRef)
    IN  /\ Mounted
        /\ MarkerRendered(group)
        /\ timeouts' = BeforeShown(after.timeouts)
        /\ tooltipHideTimeoutRef' = after.ref
        /\ tooltip' = [games |-> group.games, indices |-> group.indices,
                       location |-> group.location]
        /\ lastEvent' = Event("showTooltip")
        /\ UNCHANGED <<props, memo, isTimelinePlaying, timelineProgress, frameId,
                       animationFrames, appVars, serviceVars, functionVars>>

\* scheduleTooltipHide: onMouseLeave or onBlur of a marker or of the tooltip
scheduleTooltipHide ==
    LET after == cancelled(timeouts, tooltipHideTimeoutRef)
        id == NewId(after.timeouts)
    IN  /\ Mounted
        /\ \/ tooltip # NullTooltip
           \/ \E j \in DOMAIN memo.cityGroups : MarkerRendered(memo.cityGroups[j])
        /\ timeouts' = after.timeouts \cup {[id |-> id, beforeShown |-> FALSE]}
        /\ tooltipHideTimeoutRef' = id
        /\ lastEvent' = Event("scheduleTooltipHide")
        /\ UNCHANGED <<props, memo, tooltip, isTimelinePlaying, timelineProgress, frameId,
                       animationFrames, appVars, serviceVars, functionVars>>

\* cancelTooltipHide: onMouseEnter or onFocus of the tooltip
cancelTooltipHide ==
    LET after == cancelled(timeouts, tooltipHideTimeoutRef)
    IN  /\ Mounted
        /\ tooltip # NullTooltip
        /\ timeouts' = after.timeouts
        /\ tooltipHideTimeoutRef' = after.ref
        /\ lastEvent' = Event("cancelTooltipHide")
        /\ UNCHANGED <<props, memo, tooltip, isTimelinePlaying, timelineProgress, frameId,
                       animationFrames, appVars, serviceVars, functionVars>>

\* () => { setTooltip(null); tooltipHideTimeoutRef.current = null; } after 120 ms
TimeoutFired(t) ==
    /\ t \in timeouts
    /\ timeouts' = timeouts \ {t}
    /\ tooltip' = NullTooltip
    /\ tooltipHideTimeoutRef' = Null
    /\ lastEvent' = IF t.beforeShown /\ tooltip # NullTooltip THEN Event("staleTimeout")
                    ELSE Event("timeout")
    /\ UNCHANGED <<props, memo, isTimelinePlaying, timelineProgress, frameId,
                   animationFrames, appVars, serviceVars, functionVars>>

\* An animation frame is delivered.
Tick == \E f \in animationFrames, delta \in FrameDeltas : tick(f, delta)

NextApp ==
    \/ \E id \in ListedIds : handleSelectReferee(id)
    \/ \E i \in DOMAIN requests : DetailResolved(i)
    \/ \E i \in DOMAIN requests : DetailRejected(i)
    \/ ToggleSidebar
    \/ CloseSidebar
    \/ handlePlayTimeline
    \/ handleStopTimeline
    \/ Tick
    \/ \E j \in DOMAIN memo.cityGroups :
           showTooltip(memo.cityGroups[j])
    \/ scheduleTooltipHide
    \/ cancelTooltipHide
    \/ \E t \in timeouts : TimeoutFired(t)

SpecApp == InitApp /\ [][NextApp]_vars

\* The animation frames requested keep being delivered.
FairSpecApp == SpecApp /\ WF_vars(Tick)

---------------------------------------------------------------------------
(* cityGroups on its own, on the games lists of the statistics runs *)

InitCityGroups ==
    /\ games \in SeqsUpTo(GamePool, MaxGames)
    /\ result = NoResult
    /\ ServiceIdle
    /\ AppIdle
    /\ MapIdle

\* The map is rendered with a referee of these games: sortedGames and
\* cityGroups are computed.
CallCityGroups ==
    /\ result' = [fn |-> "cityGroups",
                  ret |-> cityGroups(sortedGames(games)),
                  threw |-> FALSE,
                  sortedGames |-> sortedGames(games)]
    /\ UNCHANGED <<serviceVars, games, appVars, mapVars>>

NextCityGroups == CallCityGroups

SpecCityGroups == InitCityGroups /\ [][NextCityGroups]_vars

---------------------------------------------------------------------------
(* The claims *)

Answered(route) == response.request.route = route /\ response.request.failure = << >>

\* Whether loaded[i] is the first record of the dataset with this id.
FirstWithId(i, id) == loaded[i].id = id /\ \A j \in 1..(i - 1) : loaded[j].id # id

\* C1: a detail request is answered 404 with {error: "Referee not found"}
\* exactly when no referee of the dataset has the requested id, compared
\* exactly; otherwise 200 with the record of a referee with that id.
C1_NotFoundIffNoSuchId ==
    Answered("detail") =>
        IF \E i \in DOMAIN loaded : loaded[i].id = response.request.id
        THEN /\ response.status = 200
             /\ {"id", "name", "games"} \subseteq DOMAIN response.body
             /\ response.body.id = response.request.id
             /\ \E i \in DOMAIN loaded :
                    /\ loaded[i].id = response.request.id
                    /\ response.body.name = loaded[i].name
                    /\ response.body.games = loaded[i].games
        ELSE /\ response.status = 404
             /\ response.body = [error |-> "Referee not found"]

\* "R1" is asked of a dataset that holds "r1" only, and is not found.
C1_Witness ==
    /\ Answered("detail")
    /\ response.request.id = "R1"
    /\ response.status = 404
    /\ \E i \in DOMAIN loaded : loaded[i].id = "r1"

\* C2: the list holds one item {id, name, gameCount} per referee, in
\* dataset order, gameCount being the length of the referee's games list;
\* status 200 and an empty list for an empty dataset.
C2_ListInDatasetOrder ==
    Answered("list") =>
        /\ response.status = 200
        /\ Len(response.body) = Len(loaded)
        /\ \A i \in DOMAIN loaded :
               response.body[i] = [id |-> loaded[i].id, name |-> loaded[i].name,
                                   gameCount |-> Len(loaded[i].games)]

C2_Witness ==
    /\ Answered("list")
    /\ Len(response.body) = 2
    /\ response.body[1].id # response.body[2].id
    /\ response.body[1].gameCount > response.body[2].gameCount

C5_DatasetUnchanged == referees = loaded

\* The statistics of a referee whose games are out of date order have been
\* computed on demand.
C5_Witness ==
    /\ Answered("detail")
    /\ response.request.variant = "server"
    /\ response.status = 200
    /\ response.body.games = <<GameB, GameA>>
    /\ response.body.totalMilesTravelled > 0

\* C6: a request is answered as the same request was answered before,
\* whatever was served before or in between.
C6_SameRequestSameResponse ==
    remembered.request = response.request =>
        /\ remembered.status = response.status
        /\ remembered.body = response.body

\* A detail request of server/index.ts has been answered a second time.
C6_Witness ==
    /\ remembered.request = response.request
    /\ Answered("detail")
    /\ response.request.variant = "server"
    /\ response.status = 200
    /\ Len(response.body.mostCommonTeams) = DefaultTopN

Failed == response.request.failure # << >>

\* C8, as the specification words it: a request that fails is answered 500
\* with a message.
C8_FailureAnswered500 ==
    Failed => response.status = 500 /\ DOMAIN response.body = {"message"}

\* C8, amended: a request that fails is answered with the status the error
\* carries (status, else statusCode), 500 when it carries none, and with the
\* error's message, "Internal Server Error" when it has none.
C8_FailureAnsweredWithItsStatus ==
    Failed =>
        LET err == response.request.failure[1]
        IN  /\ err.status # Undefined => response.status = err.status
            /\ (err.status = Undefined /\ err.statusCode # Undefined)
                   => response.status = err.statusCode
            /\ (err.status = Undefined /\ err.statusCode = Undefined)
                   => response.status = 500
            /\ err.message # "" => response.body = [message |-> err.message]
            /\ err.message = "" => response.body = [message |-> "Internal Server Error"]

\* An error that carries only a statusCode has been answered with it.
C8_Witness ==
    /\ Failed
    /\ response.request.failure[1].status = Undefined
    /\ response.status = 413

IsMalformed(date) == DateGetTime(date) = NaN

\* C7: with a malformed date in the list, computeTotalMiles and
\* computeDaysWorkedStreak end in a failure and return no number.
C7_MalformedDateFails ==
    (/\ result.fn \in {"computeTotalMiles", "computeDaysWorkedStreak"}
     /\ \E i \in DOMAIN games : IsMalformed(games[i].date))
        => result.threw

\* C9: computeTotalMiles of no game or of one game is 0.
C9_AtMostOneGameNoMiles ==
    (result.fn = "computeTotalMiles" /\ Len(games) <= 1) => result.ret = 0

C9_Witness == result.fn = "computeTotalMiles" /\ Len(games) = 1 /\ result.ret = 0

\* computeTotalMiles returns what it returned, for the games in any order.
SameInAnyOrder ==
    \A p \in Perms(Len(games)) : computeTotalMiles(Permuted(games, p)).value = result.ret

\* C10, as the specification words it, on lists whose dates are all dates:
\* computeTotalMiles returns the same value for every permutation.
C10_SameInAnyOrder ==
    (result.fn = "computeTotalMiles" /\ \A i \in DOMAIN games : ~IsMalformed(games[i].date))
        => SameInAnyOrder

\* C10, amended: the same value for every permutation of a list whose dates
\* are all dates and in which the games of one day are at one place.
C10_SameInAnyOrderOfDays ==
    (/\ result.fn = "computeTotalMiles"
     /\ \A i \in DOMAIN games : ~IsMalformed(games[i].date)
     /\ \A i, j \in DOMAIN games :
            DateGetTime(games[i].date) = DateGetTime(games[j].date)
                => games[i].coordinates = games[j].coordinates)
        => SameInAnyOrder

\* Three games out of date order, two of them on one day at one place.
C10_Witness ==
    /\ result.fn = "computeTotalMiles"
    /\ games = <<GameF, GameA, GameB>>
    /\ result.ret > 0

---------------------------------------------------------------------------
(* computeMostCommonTeams *)

CalledMostCommonTeams == result.fn = "computeMostCommonTeams"

\* The topN of the call: 3 when none was passed.
GivenTopN == IF "topN" \in DOMAIN result THEN result.topN ELSE 3

\* The team names of the list, in the order they are met: home before away.
NamesMet == TeamsOf(games)

TeamNames == Range(NamesMet)

\* Where a team name is first met.
FirstMet(name) ==
    CHOOSE k \in DOMAIN NamesMet :
        NamesMet[k] = name /\ \A m \in 1..(k - 1) : NamesMet[m] # name

Returned_Names == {result.ret[i].name : i \in DOMAIN result.ret}

RECURSIVE SumOfCounts(_)
SumOfCounts(entries) ==
    IF entries = << >> THEN 0 ELSE Head(entries).count + SumOfCounts(Tail(entries))

\* C11: with topN at least the number of distinct team names, the counts
\* returned are numbers that sum to twice the number of games.
C11_CountsSumToTwiceTheGames ==
    (CalledMostCommonTeams /\ GivenTopN >= Cardinality(TeamNames)) =>
        /\ \A i \in DOMAIN result.ret : ~IsText(result.ret[i].count)
        /\ SumOfCounts(result.ret) = 2 * Len(games)

\* C12: min(topN, number of distinct team names) entries are returned, their
\* names pairwise distinct, their counts in non-increasing order, and no team
\* left out appears more often than a team returned; topN defaults to 3.
C12_TopNByCount ==
    CalledMostCommonTeams =>
        /\ Len(result.ret) = Min(GivenTopN, Cardinality(TeamNames))
        /\ \A i, j \in DOMAIN result.ret : i < j =>
               /\ result.ret[i].name # result.ret[j].name
               /\ ~IsText(result.ret[i].count)
               /\ ~IsText(result.ret[j].count)
               /\ result.ret[i].count >= result.ret[j].count
        /\ \A name \in TeamNames \ Returned_Names : \A i \in DOMAIN result.ret :
               Appearances(games, name) <= result.ret[i].count

\* C16: the count returned with a team name is the number of games in which
\* it is the home team plus the number of games in which it is the away team.
C16_CountIsHomePlusAway ==
    CalledMostCommonTeams =>
        \A i \in DOMAIN result.ret :
            result.ret[i].count = Appearances(games, result.ret[i].name)

NoInheritedName == TeamNames \cap InheritedNames = {}

\* Whether name comes before other where the names are first met.
MetBefore(name, other) == FirstMet(name) < FirstMet(other)

\* Whether name comes before other in the own-property order of counts: the
\* array indices first, in ascending order, then the other names as first met.
OwnPropertyBefore(name, other) ==
    IF IsArrayIndex(name)
    THEN IsArrayIndex(other) => IndexValue(name) < IndexValue(other)
    ELSE ~IsArrayIndex(other) /\ MetBefore(name, other)

---------------------------------------------------------------------------
(* computeDaysWorkedStreak *)

CalledDaysWorkedStreak == result.fn = "computeDaysWorkedStreak"

DatesOf(arr) == [i \in DOMAIN arr |-> arr[i].date]

\* The days worked, as numbers of days.
DaysWorked == {DateGetTime(games[i].date) : i \in DOMAIN games}

\* Whether k days in a row were worked.
WorkedInARow(k) == \E d \in DaysWorked : \A j \in 0..(k - 1) : d + j \in DaysWorked

\* C13: on dates that are calendar dates, computeDaysWorkedStreak returns the
\* length of the longest run of consecutive calendar days among them: 3 for
\* January 1, 2, 3 and 10.
C13_LongestRunOfConsecutiveDays ==
    (CalledDaysWorkedStreak /\ \A i \in DOMAIN games : ~IsMalformed(games[i].date)) =>
        /\ games # << >> => WorkedInARow(result.ret)
        /\ ~WorkedInARow(result.ret + 1)
        /\ DatesOf(games) = <<Jan01, Jan02, Jan03, Jan10>> => result.ret = 3

C13_Witness ==
    /\ CalledDaysWorkedStreak
    /\ DatesOf(games) = <<Jan01, Jan02, Jan03, Jan10>>
    /\ result.ret = 3

\* C14: computeDaysWorkedStreak returns 0 for no games, 1 for games that all
\* share one date, and for any games at least 1 and at most the number of
\* distinct dates.
C14_StreakWithinBounds ==
    CalledDaysWorkedStreak =>
        /\ games = << >> => result.ret = 0
        /\ games # << >> =>
               /\ result.ret >= 1
               /\ result.ret <= Cardinality(Range(DatesOf(games)))
        /\ Cardinality(Range(DatesOf(games))) = 1 => result.ret = 1

\* Three games of one day.
C14_Witness ==
    /\ CalledDaysWorkedStreak
    /\ games = <<GameB, GameC, GameF>>
    /\ result.ret = 1

\* The list with game g put in after its first k games.
WithGameAt(k, g) == SubSeq(games, 1, k) \o <<g>> \o SubSeq(games, k + 1, Len(games))

\* C18: computeDaysWorkedStreak returns what it returned for the games in
\* any order, and with one more game on a date the list has already.
C18_EachDateCountedOnce ==
    CalledDaysWorkedStreak =>
        /\ \A p \in Perms(Len(games)) :
               computeDaysWorkedStreak(Permuted(games, p)) = result.ret
        /\ \A g \in GamePool : \A k \in 0..Len(games) :
               g.date \in Range(DatesOf(games))
                   => computeDaysWorkedStreak(WithGameAt(k, g)) = result.ret

\* Three days in a row, out of order; GameF is on the second of them.
C18_Witness ==
    /\ CalledDaysWorkedStreak
    /\ games = <<GameD, GameA, GameB>>
    /\ result.ret = 3

---------------------------------------------------------------------------
(* computeTotalMiles and haversineDistanceMiles *)

CalledTotalMiles == result.fn = "computeTotalMiles"

AllDatesAreDates == \A i \in DOMAIN games : ~IsMalformed(games[i].date)

\* C15: on dates that are dates, computeTotalMiles is the sum of the
\* distances between consecutive games in ascending order of date, games of
\* one date in their input order, rounded once to the nearest integer.
C15_SumOfLegsRoundedOnce ==
    (CalledTotalMiles /\ AllDatesAreDates) =>
        result.ret = MathRound(SumOfLegs(StableByDate(games)))

\* A journey there and back, the second and third game on one day, the legs
\* of which, each rounded before it is added, sum to another number of miles.
C15_Witness ==
    /\ CalledTotalMiles
    /\ games = <<GameA, GameG, GameD>>
    /\ result.ret # NaN
    /\ result.ret # computeTotalMilesRoundingLegs(games).value

IsValidCoordinates(coord) == coord[1] \in (0 - 90)..90 /\ coord[2] \in (0 - 180)..180

\* C19: on games with valid coordinates and dates that are dates,
\* computeTotalMiles returns an integer that is not negative.
C19_TotalMilesNotNegative ==
    (/\ CalledTotalMiles
     /\ AllDatesAreDates
     /\ \A i \in DOMAIN games : IsValidCoordinates(games[i].coordinates))
        => result.ret # NaN /\ result.ret >= 0

CalledHaversine == result.fn = "haversineDistanceMiles"

---------------------------------------------------------------------------
(* C21, C22: the detail requests of the App *)

Pending(i) == requests[i].state = "pending"

AllFulfilled == \A i \in DOMAIN requests : requests[i].state = "fulfilled"

\* C21: when referee A and then referee B are selected while A's request is
\* outstanding and both requests have settled successfully, the detail shown
\* is B's: selectedReferee.id equals selectedRefereeId, whatever the order of
\* the answers.
C21_ShownIsSelected ==
    (Len(requests) >= 2 /\ AllFulfilled) => IdOf(selectedReferee) = selectedRefereeId

\* C22: detailLoading is true in every state in which a detail request that
\* was started has not settled, and false once every started request has
\* settled.
C22_LoadingWhilePending ==
    /\ (\E i \in DOMAIN requests : Pending(i)) => detailLoading
    /\ (requests # << >> /\ \A i \in DOMAIN requests : ~Pending(i)) => ~detailLoading

---------------------------------------------------------------------------
(* C23, C24: the timeline playback of the map *)

\* routePoints.length - 1 in the units of timelineProgress, 0 for no route
LastPoint ==
    IF Len(memo.routePoints) >= 2
    THEN (Len(memo.routePoints) - 1) * segmentDurationMs
    ELSE 0

ProgressInRange == 0 <= timelineProgress /\ timelineProgress <= LastPoint

\* A tick of a running playback leaves it running exactly when the progress
\* is short of the last point.
EndsAtLastPoint ==
    (isTimelinePlaying /\ lastEvent'.name = "tick" /\ timelineProgress' # timelineProgress)
        => (isTimelinePlaying' <=> timelineProgress' < LastPoint)

\* C23: a timeline playback started by handlePlayTimeline, which starts one
\* only for a route of 2 points or more, ends on its own when animation
\* frames keep being delivered: timelineProgress stays within
\* 0 .. routePoints.length - 1, and isTimelinePlaying becomes false, at the
\* frame at which the progress reaches routePoints.length - 1.
C23_PlaybackEnds ==
    /\ [](ProgressInRange /\ (isTimelinePlaying => Len(memo.routePoints) >= 2))
    /\ [][EndsAtLastPoint]_vars
    /\ (isTimelinePlaying ~> ~isTimelinePlaying)

\* A playback over two segments has ended at a tick.
C23_Witness ==
    /\ lastEvent.name = "tick"
    /\ lastEvent.playing
    /\ ~isTimelinePlaying
    /\ Len(memo.routePoints) = 3
    /\ timelineProgress = 2 * segmentDurationMs

\* C24: when the id of the displayed referee changes, and after
\* handleStopTimeline, isTimelinePlaying is false, timelineProgress is 0 and
\* tooltip is null, and no animation frame of the playback before is left to
\* advance the progress: no frame is pending while no playback runs, and the
\* only frame pending while one runs is the frame of the effect in force.
C24_ResetLeavesNoFrame ==
    /\ lastEvent.name \in {"refereeIdChanged", "handleStopTimeline"}
        => /\ ~isTimelinePlaying
           /\ timelineProgress = 0
           /\ tooltip = NullTooltip
           /\ animationFrames = {}
    /\ ~isTimelinePlaying => animationFrames = {}
    /\ \A f \in animationFrames : f.id = frameId

\* The id of the displayed referee changed while a playback was running.
C24_Witness ==
    /\ lastEvent.name = "refereeIdChanged"
    /\ lastEvent.playing
    /\ Mounted

---------------------------------------------------------------------------
(* C25: the timer that hides the tooltip *)

\* C25: at most one tooltip-hide timer is pending at any time, and
\* showTooltip and entering the tooltip cancel the pending one, so that a
\* tooltip displayed by showTooltip is never removed by a timer that was set
\* before it was shown.
C25_OneHideTimer ==
    /\ Cardinality(timeouts) <= 1
    /\ \A t \in timeouts : t.id = tooltipHideTimeoutRef /\ ~t.beforeShown
    /\ lastEvent.name \in {"showTooltip", "cancelTooltipHide"} => timeouts = {}
    /\ lastEvent.name # "staleTimeout"

\* showTooltip has displayed a tooltip while a timer was pending.
C25_Witness ==
    /\ lastEvent.name = "showTooltip"
    /\ lastEvent.pending
    /\ tooltip # NullTooltip

---------------------------------------------------------------------------
(* C26: the city groups *)

CalledCityGroups == result.fn = "cityGroups"

\* The places <<j, k>> in the groups at which the position p is listed.
ListedAt(groups, p) ==
    {jk \in UNION {{<<j, k>> : k \in DOMAIN groups[j].indices} : j \in DOMAIN groups} :
        groups[jk[1]].indices[jk[2]] = p}

\* C26: the city groups partition the date-sorted games: every position
\* 0..n-1 of the sorted list is in the indices of exactly one group, the
\* games of a group are the games at its indices and all have the exact
\* coordinates of the group, no two groups share coordinates, and the indices
\* of a group are in ascending order.
C26_GroupsPartitionSortedGames ==
    CalledCityGroups =>
        LET groups == result.ret
            sorted == result.sortedGames
        IN  /\ \A p \in 0..(Len(sorted) - 1) : Cardinality(ListedAt(groups, p)) = 1
            /\ \A j \in DOMAIN groups :
                   /\ Len(groups[j].games) = Len(groups[j].indices)
                   /\ \A k \in DOMAIN groups[j].indices :
                          /\ groups[j].indices[k] \in 0..(Len(sorted) - 1)
                          /\ groups[j].games[k] = sorted[groups[j].indices[k] + 1]
                          /\ groups[j].games[k].coordinates = groups[j].coordinates
                   /\ \A k \in 1..(Len(groups[j].indices) - 1) :
                          groups[j].indices[k] < groups[j].indices[k + 1]
            /\ \A i, j \in DOMAIN groups :
                   i # j => groups[i].coordinates # groups[j].coordinates

\* Three games at two places, the first and the last at one of them.
C26_Witness ==
    /\ CalledCityGroups
    /\ Len(result.sortedGames) = 3
    /\ Len(result.ret) = 2
    /\ result.ret[1].indices = <<0, 2>>

=============================================================================
